---- MODULE Spec2Model ----
(***************************************************************************)
(* Scraper execution pipeline of the HK Job Fair Aggregator:               *)
(* BaseScraper (scrapers/base.py) with its browser session, the schedule   *)
(* gate, validation, deduplication against the data directory and          *)
(* persistence, as a state machine over the scraper instances of one       *)
(* process and the data directory they share.                              *)
(***************************************************************************)
EXTENDS Integers, Sequences, FiniteSets, TLC

\* ------------------------------------------------------------------------
\* Bounds of the model
\* ------------------------------------------------------------------------
\* the clock (hours, Hong Kong local time) stops advancing here
MaxTime == 25
\* browser sessions the process may create
MaxSessions == 2
\* items one scrape() returns
MaxBatch == 2
\* the depth at which the interpreter ends a recursion
MaxDepth == 3

\* ------------------------------------------------------------------------
\* Program constants
\* ------------------------------------------------------------------------
\* timedelta(hours=1), timedelta(days=1), timedelta(weeks=1),
\* timedelta(days=30), in hours
HourlyThreshold == 1
DailyThreshold == 24
WeeklyThreshold == 168
MonthlyThreshold == 720
\* length of a calendar day, for strftime('%Y-%m-%d')
HoursPerDay == 24
SecondsPerHour == 3600
\* stop_after_attempt(3) and the default of handle_rate_limit
MaxAttempts == 3
DefaultRetryAfter == 60

None == "None"

\* ScraperType, UpdateFrequency (scraper_types.py); "UNKNOWN" stands for any
\* value of update_frequency that is no member of the enum
ScraperTypes == {"STATIC", "DYNAMIC", "API"}
UpdateFrequencies == {"HOURLY", "DAILY", "WEEKLY", "MONTHLY", "CUSTOM"}

\* the scraper instances of the process
Scrapers == {1, 2}

\* ------------------------------------------------------------------------
\* Strings: a string is a sequence of characters; the date and the
\* extension of a file name are single tokens
\* ------------------------------------------------------------------------
\* str.lower() on the characters used
Lower(c) ==
    CASE c = "H" -> "h"
      [] c = "K" -> "k"
      [] c = "J" -> "j"
      [] c = "L" -> "l"
      [] OTHER -> c

\* name.lower().replace(' ', '_')
Slug(n) == [i \in 1..Len(n) |-> IF Lower(n[i]) = " " THEN "_" ELSE Lower(n[i])]

\* str.startswith
StartsWith(f, p) == Len(p) <= Len(f) /\ SubSeq(f, 1, Len(p)) = p

\* str.endswith('.json')
EndsWithJson(f) == Len(f) >= 1 /\ f[Len(f)] = ".json"

\* strftime('%Y-%m-%d') of the Hong Kong date of hour t
DateStr(t) ==
    CASE t \div HoursPerDay = 0 -> "2024-03-15"
      [] t \div HoursPerDay = 1 -> "2024-03-16"
      [] OTHER -> "2024-03-17"

\* f"{self.name.lower().replace(' ', '_')}_{today}.json"
FileName(n, t) == Slug(n) \o <<"_", DateStr(t), ".json">>

\* ------------------------------------------------------------------------
\* Events
\* ------------------------------------------------------------------------
\* what scrape() can return: raw mappings; source_id is a required field of
\* a record (job_fair.py), so a scraped mapping carries one of its own
RawEvents ==
    {[event_name |-> "Fair A", venue_name |-> " hall", source_id |-> "site"],
     [event_name |-> "Fair A", venue_name |-> "HALL", source_id |-> "site"],
     [event_name |-> "Fair B", venue_name |-> "HALL", source_id |-> "site"]}

\* str.strip() on the texts used
Strip(v) ==
    CASE v = " hall" -> "hall"
      [] v = " Fair A" -> "Fair A"
      [] v = "  " -> ""
      [] OTHER -> v

\* case and whitespace folding of the equivalence check
Fold(v) == IF Strip(v) = "HALL" THEN "hall" ELSE Strip(v)

Batches == UNION {[1..n -> RawEvents] : n \in 0..MaxBatch}

\* what the site of a source can list: the second source lists one event
\* at most
Upstream(s) ==
    IF s = 1
    THEN Batches
    ELSE {<<>>, <<[event_name |-> "Fair B", venue_name |-> "HALL",
                    source_id |-> "site"]>>}


\* ------------------------------------------------------------------------
\* State
\* ------------------------------------------------------------------------
VARIABLES
    name,                 \* [Scrapers -> string]  self.name
    scraper_type,         \* [Scrapers -> ScraperTypes]  self.scraper_type
    update_frequency,     \* [Scrapers -> frequency]  self.update_frequency
    selenium_driver,      \* [Scrapers -> session id, 0 for None]
    sessions,             \* sessions[i]: "live" until quit() was called on it
    ever_closed,          \* [Scrapers -> BOOLEAN] close_selenium_driver dropped a session
    ever_fetched,         \* [Scrapers -> BOOLEAN] a DYNAMIC scraper made a rendered
                          \* fetch or its run() entered FETCHING
    data_dir,             \* file name |-> [mtime, content, ok]: the files of self.data_dir
    now,                  \* the clock, in hours
    self,                 \* the scraper whose run() is executing, 0 when none
    pc,                   \* position of run()
    steps,                \* the calls run() has made so far, in order
    events,               \* events (run), what scrape() returned
    validated_events,     \* validated_events (run)
    deduplicated_events,  \* deduplicated_events (run)
    duplicate_count,      \* duplicate_count (run)
    result,               \* what run() returns
    outcome,              \* how the run ended
    held,                 \* the session self.selenium_driver named when scrape() was entered
    wrote,                \* this run created or overwrote a file of data_dir
    prev_run,             \* the run before this one: who, what it scraped, whether it persisted
    fetch,                \* the fetch call in progress: method, retry contexts, last response
    validation            \* the validation loop of run(): raw items, position, what it kept

config == <<name, scraper_type, update_frequency>>
browser == <<selenium_driver, sessions, ever_closed>>
runvars == <<self, pc, steps, events, validated_events, deduplicated_events, duplicate_count,
             result, outcome, held, wrote, prev_run>>
vars == <<name, scraper_type, update_frequency, selenium_driver, sessions,
          ever_closed, ever_fetched, data_dir, now, self, pc, steps, events,
          validated_events, deduplicated_events, duplicate_count, result, outcome, held,
          wrote, prev_run, fetch, validation>>

\* the fetch helpers and the validation loop
calls == <<fetch, validation>>

\* self.name of the two sources: the slug of the first is a prefix of the
\* slug of the second
SourceNames == <<<<"H", "K">>, <<"H", "K", " ", "J">>>>

\* __init__: source_id, source_type and source_priority of the two scrapers,
\* assigned once and never changed
source_id == <<"hk", "hkj">>
source_type == <<"GOVERNMENT", "JOB_PORTAL">>
source_priority == <<"PRIMARY", "SECONDARY">>

NoRun == [who |-> 0, events |-> <<>>, persisted |-> FALSE]

\* a header that the response does not carry, a key that the mapping lacks
Absent == "<absent>"

\* no response received yet
NoResponse == [status |-> 0, retry_after |-> Absent,
               reset |-> <<Absent, Absent, Absent>>,
               remaining |-> <<Absent, Absent, Absent>>,
               content_type |-> "", text |-> ""]

\* no fetch helper was called
NoFetch == [pc |-> "idle", who |-> 0, method |-> "none", url |-> "none",
            sent |-> "none",
            stack |-> <<>>, response |-> NoResponse, result |-> "none",
            requests |-> 0, failures |-> 0, other_failures |-> 0,
            slept |-> 0, browser |-> FALSE, captcha |-> "none",
            warned |-> FALSE]

\* the validation loop has not started
NoValidation == [who |-> 0, passed |-> <<>>, raw |-> <<>>, i |-> 0,
                 kept |-> <<>>, kinds |-> <<>>, constructions |-> <<>>,
                 raised |-> FALSE]

\* ------------------------------------------------------------------------
\* Browser session (base.py 124-160)
\* ------------------------------------------------------------------------
\* a constructor that leaves the creation of the session to the first use
ConstructDriver_Lazy(types, s) == 0

\* __init__: self.selenium_driver = None, then init_selenium_driver() for a
\* DYNAMIC scraper; the scrapers are constructed in the order 1, 2
ConstructDriver(types, s) ==
    IF types[s] = "DYNAMIC"
    THEN Cardinality({r \in Scrapers : r <= s /\ types[r] = "DYNAMIC"})
    ELSE 0

\* setup_selenium_driver() returned a new session: the reference the
\* instance held is overwritten
NewSession(s) ==
    /\ sessions' = Append(sessions, "live")
    /\ selenium_driver' = [selenium_driver EXCEPT ![s] = Len(sessions) + 1]

\* setup_selenium_driver() can succeed
CanCreate == Len(sessions) < MaxSessions

\* close_selenium_driver: quit() (an exception of it is logged and
\* swallowed), and in every case self.selenium_driver = None
CloseDriver(s) ==
    IF selenium_driver[s] # 0
    THEN /\ sessions' = [sessions EXCEPT ![selenium_driver[s]] = "closed"]
         /\ selenium_driver' = [selenium_driver EXCEPT ![s] = 0]
         /\ ever_closed' = [ever_closed EXCEPT ![s] = TRUE]
    ELSE UNCHANGED browser

\* ------------------------------------------------------------------------
\* Schedule gate (base.py 448-492)
\* ------------------------------------------------------------------------
\* the files of data_dir that should_update and load_existing_data look at
SourceFiles(s) ==
    {f \in DOMAIN data_dir : StartsWith(f, Slug(name[s])) /\ EndsWithJson(f)}

\* latest_time: the largest os.path.getmtime of the files
LatestTime(F) ==
    CHOOSE t \in {data_dir[f].mtime : f \in F} :
        \A f \in F : data_dir[f].mtime <= t

should_update(s) ==
    IF SourceFiles(s) = {}
    THEN TRUE
    ELSE LET elapsed == now - LatestTime(SourceFiles(s))
         IN  CASE update_frequency[s] = "HOURLY" -> elapsed > HourlyThreshold
               [] update_frequency[s] = "DAILY" -> elapsed > DailyThreshold
               [] update_frequency[s] = "WEEKLY" -> elapsed > WeeklyThreshold
               [] update_frequency[s] = "MONTHLY" -> elapsed > MonthlyThreshold
               [] update_frequency[s] = "CUSTOM" -> TRUE
               [] OTHER -> TRUE

\* ------------------------------------------------------------------------
\* Validation, deduplication, persistence (base.py 328-446)
\* ------------------------------------------------------------------------
\* validate_event on a mapping that has every required field:
\* validate_required_text strips the text
validate_event(e) == [e EXCEPT !.venue_name = Strip(e.venue_name)]

\* the equivalence check: same event name and same venue up to case and
\* surrounding whitespace; source metadata and timestamps are not compared
SameEvent(a, b) ==
    /\ a.event_name = b.event_name
    /\ Fold(a.venue_name) = Fold(b.venue_name)

is_duplicate_event(e, existing) ==
    \E i \in 1..Len(existing) : SameEvent(e, existing[i])

\* load_existing_data: the contents of the readable files of the source,
\* concatenated in the order os.listdir gives; a corrupt file is skipped
RECURSIVE ConcatFiles(_)
ConcatFiles(F) ==
    IF F = {}
    THEN <<>>
    ELSE LET f == CHOOSE x \in F : TRUE
         IN  (IF data_dir[f].ok THEN data_dir[f].content ELSE <<>>)
                 \o ConcatFiles(F \ {f})

load_existing_data(s) == ConcatFiles(SourceFiles(s))

\* a loop that keeps every new event
Keep_All(existing, e) == TRUE

\* deduplicate_events: the new events that match no existing event
Keep(existing, e) == ~is_duplicate_event(e, existing)

deduplicate_events(s, new_events) ==
    LET existing == load_existing_data(s)
    IN  SelectSeq(new_events, LAMBDA e : Keep(existing, e))

\* deduplicate_events: duplicate_count, one for each new event that went
\* through the else branch of the loop
DuplicateCount(s, new_events) ==
    LET existing == load_existing_data(s)
    IN  Cardinality({i \in 1..Len(new_events) : ~Keep(existing, new_events[i])})

\* save_to_json with the loop that stamps the source metadata left out of
\* the identifier: the event keeps the source_id it carried
Stamp_KeepCarried(s, e) ==
    [event_name |-> e.event_name, venue_name |-> e.venue_name,
     source_id |-> e.source_id, source_name |-> name[s],
     source_type |-> source_type[s], source_priority |-> source_priority[s],
     scraped_at |-> now]

\* save_to_json, lines 344-349: the metadata assigned to an event, whatever
\* it carried under these keys
Stamp(s, e) ==
    [event_name |-> e.event_name, venue_name |-> e.venue_name,
     source_id |-> source_id[s], source_name |-> name[s],
     source_type |-> source_type[s], source_priority |-> source_priority[s],
     scraped_at |-> now]

\* save_to_json: open(file_path, 'w') and json.dump of the stamped events
WriteFile(s, data) ==
    LET f == FileName(name[s], now)
    IN  [g \in DOMAIN data_dir \cup {f} |->
            IF g = f
            THEN [mtime |-> now,
                  content |-> [i \in 1..Len(data) |-> Stamp(s, data[i])],
                  ok |-> TRUE]
            ELSE data_dir[g]]

\* save_to_json when json.dump or the write fails after open(file_path, 'w')
\* has truncated the file: what is left is not valid JSON
TruncateFile(s) ==
    LET f == FileName(name[s], now)
    IN  [g \in DOMAIN data_dir \cup {f} |->
            IF g = f
            THEN [mtime |-> now, content |-> <<>>, ok |-> FALSE]
            ELSE data_dir[g]]

\* ------------------------------------------------------------------------
\* Initial state: both scrapers constructed, the data directory empty
\* ------------------------------------------------------------------------
Init ==
    /\ name = [s \in Scrapers |-> SourceNames[s]]
    /\ scraper_type \in {t \in [Scrapers -> ScraperTypes] : t[2] = "STATIC"}
    /\ update_frequency \in {u \in [Scrapers -> {"DAILY", "CUSTOM"}] : u[2] = "CUSTOM"}
    /\ selenium_driver = [s \in Scrapers |-> ConstructDriver(scraper_type, s)]
    /\ sessions = [i \in 1..Cardinality({s \in Scrapers : scraper_type[s] = "DYNAMIC"})
                     |-> "live"]
    /\ ever_closed = [s \in Scrapers |-> FALSE]
    /\ ever_fetched = [s \in Scrapers |-> FALSE]
    /\ data_dir = <<>>
    /\ now = 0
    /\ self = 0
    /\ pc = "IDLE"
    /\ steps = <<>>
    /\ events = <<>>
    /\ validated_events = <<>>
    /\ deduplicated_events = <<>>
    /\ duplicate_count = 0
    /\ result = None
    /\ outcome = "none"
    /\ held = 0
    /\ wrote = FALSE
    /\ prev_run = NoRun
    /\ fetch = NoFetch
    /\ validation = NoValidation

\* ------------------------------------------------------------------------
\* Public methods called between runs
\* ------------------------------------------------------------------------
\* init_selenium_driver (base.py 129-147): returns at once unless DYNAMIC;
\* stores the new session, or re-raises what setup_selenium_driver raised
InitSeleniumDriver(s) ==
    /\ pc = "IDLE"
    /\ \E setup_ok \in BOOLEAN :
          IF scraper_type[s] = "DYNAMIC" /\ setup_ok /\ CanCreate
          THEN NewSession(s) /\ UNCHANGED ever_closed
          ELSE UNCHANGED browser
    /\ UNCHANGED <<calls, config, ever_fetched, data_dir, now, runvars>>

\* close_selenium_driver (base.py 149-160)
CloseSeleniumDriver(s) ==
    /\ pc = "IDLE"
    /\ CloseDriver(s)
    /\ UNCHANGED <<calls, config, ever_fetched, data_dir, now, runvars>>

\* get_dynamic_page (base.py 211-258): ValueError unless DYNAMIC; creates
\* the session when the instance holds none; the navigation, the wait and
\* the CAPTCHA check change nothing of the instance
GetDynamicPage(s) ==
    /\ pc = "IDLE"
    /\ \E setup_ok \in BOOLEAN :
          IF scraper_type[s] = "DYNAMIC" /\ selenium_driver[s] = 0
             /\ setup_ok /\ CanCreate
          THEN NewSession(s) /\ UNCHANGED ever_closed
          ELSE UNCHANGED browser
    /\ ever_fetched' = [ever_fetched EXCEPT
                          ![s] = @ \/ scraper_type[s] = "DYNAMIC"]
    /\ UNCHANGED <<calls, config, data_dir, now, runvars>>

\* ------------------------------------------------------------------------
\* run() (base.py 504-557), one action per step
\* ------------------------------------------------------------------------
\* run() is called on scraper s
RunBegin(s) ==
    /\ pc = "IDLE"
    /\ self' = s
    /\ pc' = "SCHEDULE_CHECK"
    /\ steps' = <<>>
    /\ events' = <<>>
    /\ validated_events' = <<>>
    /\ deduplicated_events' = <<>>
    /\ duplicate_count' = 0
    /\ result' = None
    /\ outcome' = "none"
    /\ held' = 0
    /\ wrote' = FALSE
    /\ UNCHANGED <<calls, config, browser, ever_fetched, data_dir, now, prev_run>>

\* lines 513-516: should_update(), outside the try block. os.listdir and
\* os.path.getmtime can raise OSError, which leaves run() as an exception
RunScheduleCheck ==
    /\ pc = "SCHEDULE_CHECK"
    /\ steps' = Append(steps, "should_update")
    /\ \E fs_ok \in BOOLEAN :
          IF ~fs_ok
          THEN pc' = "DONE" /\ outcome' = "raised" /\ result' = "OSError"
          ELSE IF ~should_update(self)
               THEN pc' = "DONE" /\ outcome' = "skipped" /\ result' = None
               ELSE pc' = "FETCHING" /\ UNCHANGED <<outcome, result>>
    /\ UNCHANGED <<calls, config, browser, ever_fetched, data_dir, now, self, events,
                   validated_events, deduplicated_events, duplicate_count, held, wrote,
                   prev_run>>

\* lines 518-525: session setup when DYNAMIC and no session is held, then
\* scrape(); an exception of either is caught by the except clause
RunFetch ==
    /\ pc = "FETCHING"
    /\ \E setup_ok \in BOOLEAN, scrape_ok \in BOOLEAN, batch \in Upstream(self) :
          LET needs == scraper_type[self] = "DYNAMIC" /\ selenium_driver[self] = 0
              created == needs /\ setup_ok /\ CanCreate
              scraped == (needs => created) /\ scrape_ok
          IN  /\ IF created
                 THEN NewSession(self) /\ UNCHANGED ever_closed
                 ELSE UNCHANGED browser
              /\ steps' = IF needs => created
                          THEN Append(steps, "scrape")
                          ELSE steps
              /\ held' = IF needs => created THEN selenium_driver'[self] ELSE 0
              /\ IF scraped
                 THEN pc' = "VALIDATING" /\ events' = batch
                 ELSE pc' = "ERROR" /\ UNCHANGED events
    /\ ever_fetched' = [ever_fetched EXCEPT
                          ![self] = @ \/ scraper_type[self] = "DYNAMIC"]
    /\ UNCHANGED <<calls, config, data_dir, now, self, validated_events,
                   deduplicated_events, duplicate_count, result, outcome, wrote, prev_run>>

\* lines 527-536: one validated item per scraped item
RunValidate ==
    /\ pc = "VALIDATING"
    /\ validated_events' = [i \in 1..Len(events) |-> validate_event(events[i])]
    /\ steps' = Append(steps, "validate_event")
    /\ pc' = "DEDUPING"
    /\ UNCHANGED <<calls, config, browser, ever_fetched, data_dir, now, self, events,
                   deduplicated_events, duplicate_count, result, outcome, held, wrote,
                   prev_run>>

\* lines 538-548: deduplicate_events; os.listdir and open can raise an
\* error that load_existing_data does not catch
RunDedupe ==
    /\ pc = "DEDUPING"
    /\ steps' = Append(steps, "deduplicate_events")
    /\ \E fs_ok \in BOOLEAN :
          IF fs_ok
          THEN /\ deduplicated_events' = deduplicate_events(self, validated_events)
               /\ duplicate_count' = DuplicateCount(self, validated_events)
               /\ pc' = IF deduplicated_events' # <<>>
                        THEN "PERSISTING"
                        ELSE "NO_NEW_DATA"
          ELSE pc' = "ERROR"
               /\ UNCHANGED <<deduplicated_events, duplicate_count>>
    /\ UNCHANGED <<calls, config, browser, ever_fetched, data_dir, now, self, events,
                   validated_events, result, outcome, held, wrote, prev_run>>

\* lines 542-545: save_to_json. open() can fail (nothing written), and
\* json.dump or the write can fail after open() truncated the file
RunPersist ==
    /\ pc = "PERSISTING"
    /\ steps' = Append(steps, "save_to_json")
    /\ \E io \in {"ok", "open_error", "write_error"} :
          CASE io = "ok" ->
                 /\ data_dir' = WriteFile(self, deduplicated_events)
                 /\ result' = FileName(name[self], now)
                 /\ wrote' = TRUE
                 /\ pc' = "PERSISTED"
            [] io = "open_error" ->
                 pc' = "ERROR" /\ UNCHANGED <<data_dir, result, wrote>>
            [] io = "write_error" ->
                 /\ data_dir' = TruncateFile(self)
                 /\ wrote' = TRUE
                 /\ pc' = "ERROR"
                 /\ UNCHANGED result
    /\ UNCHANGED <<calls, config, browser, ever_fetched, now, self, events,
                   validated_events, deduplicated_events, duplicate_count, outcome, held,
                   prev_run>>

\* the cleanup at the end of the try block instead of in a finally clause
FinallyCloses_OnSuccess(s) == scraper_type[s] = "DYNAMIC" /\ pc # "ERROR"

\* line 556: the finally clause closes the session of a DYNAMIC scraper
FinallyCloses(s) == scraper_type[s] = "DYNAMIC"

\* lines 545-557: the return value is fixed, the finally clause runs
RunFinally ==
    /\ pc \in {"PERSISTED", "NO_NEW_DATA", "ERROR"}
    /\ outcome' = CASE pc = "PERSISTED" -> "persisted"
                    [] pc = "NO_NEW_DATA" -> "nothing_new"
                    [] OTHER -> "failed"
    /\ IF FinallyCloses(self) THEN CloseDriver(self) ELSE UNCHANGED browser
    /\ pc' = "DONE"
    /\ UNCHANGED <<calls, config, ever_fetched, data_dir, now, self, steps, events,
                   validated_events, deduplicated_events, duplicate_count, result, held,
                   wrote, prev_run>>

\* run() has returned (or raised) to its caller
RunReturn ==
    /\ pc = "DONE"
    /\ prev_run' = IF outcome = "persisted"
                    THEN [who |-> self, events |-> events, persisted |-> TRUE]
                    ELSE NoRun
    /\ pc' = "IDLE"
    /\ self' = 0
    /\ steps' = <<>>
    /\ events' = <<>>
    /\ validated_events' = <<>>
    /\ deduplicated_events' = <<>>
    /\ duplicate_count' = 0
    /\ result' = None
    /\ outcome' = "none"
    /\ held' = 0
    /\ wrote' = FALSE
    /\ UNCHANGED <<calls, config, browser, ever_fetched, data_dir, now>>

\* time passes between runs
Tick ==
    /\ pc = "IDLE"
    /\ now + DailyThreshold + 1 <= MaxTime
    /\ now' = now + DailyThreshold + 1
    /\ UNCHANGED <<calls, config, browser, ever_fetched, data_dir, runvars>>

Next ==
    \/ \E s \in Scrapers : InitSeleniumDriver(s)
    \/ \E s \in Scrapers : CloseSeleniumDriver(s)
    \/ \E s \in Scrapers : GetDynamicPage(s)
    \/ \E s \in Scrapers : RunBegin(s)
    \/ RunScheduleCheck
    \/ RunFetch
    \/ RunValidate
    \/ RunDedupe
    \/ RunPersist
    \/ RunFinally
    \/ RunReturn
    \/ Tick

Spec == Init /\ [][Next]_vars

\* ------------------------------------------------------------------------
\* The schedule gate as a function of the data directory, the clock and
\* the frequency: the inputs are drawn in the initial state
\* ------------------------------------------------------------------------
\* clock values around each threshold; the files are 0 to 2 hours old at
\* clock 2
ScheduleClocks ==
    {2, HourlyThreshold + 2, DailyThreshold + 2, WeeklyThreshold + 2,
     MonthlyThreshold + 2}

ScheduleMTimes == {0, 1, 2}

\* the files the data directory can hold: two units of the first source,
\* one of the second
ScheduleFiles ==
    {FileName(SourceNames[1], 0), FileName(SourceNames[1], HoursPerDay),
     FileName(SourceNames[2], 0)}

InitSchedule ==
    /\ name = [s \in Scrapers |-> SourceNames[s]]
    /\ scraper_type = [s \in Scrapers |-> "STATIC"]
    /\ \E u \in UpdateFrequencies \cup {"UNKNOWN"} :
          update_frequency = [s \in Scrapers |-> u]
    /\ selenium_driver = [s \in Scrapers |-> 0]
    /\ sessions = <<>>
    /\ ever_closed = [s \in Scrapers |-> FALSE]
    /\ ever_fetched = [s \in Scrapers |-> FALSE]
    /\ \E F \in SUBSET ScheduleFiles :
          data_dir \in [F -> [mtime : ScheduleMTimes,
                              content : {<<[event_name |-> "Fair A",
                                            venue_name |-> "hall",
                                            source_id |-> source_id[1],
                                            source_name |-> SourceNames[1],
                                            source_type |-> source_type[1],
                                            source_priority |-> source_priority[1],
                                            scraped_at |-> 0]>>},
                              ok : {TRUE}]]
    /\ now \in ScheduleClocks
    /\ self = 0
    /\ pc = "IDLE"
    /\ steps = <<>>
    /\ events = <<>>
    /\ validated_events = <<>>
    /\ deduplicated_events = <<>>
    /\ duplicate_count = 0
    /\ result = None
    /\ outcome = "none"
    /\ held = 0
    /\ wrote = FALSE
    /\ prev_run = NoRun
    /\ fetch = NoFetch
    /\ validation = NoValidation

\* should_update() is called on scraper s
ShouldUpdateCall(s) ==
    /\ pc = "IDLE"
    /\ self' = s
    /\ result' = should_update(s)
    /\ pc' = "CALLED"
    /\ UNCHANGED <<calls, config, browser, ever_fetched, data_dir, now, steps,
                   events, validated_events, deduplicated_events, duplicate_count, outcome,
                   held, wrote, prev_run>>

NextSchedule == \E s \in Scrapers : ShouldUpdateCall(s)

SpecSchedule == InitSchedule /\ [][NextSchedule]_vars

\* ------------------------------------------------------------------------
\* The fetch helpers (base.py 162-314) and the rate-limit functions
\* (anti_scrape.py 197-275)
\* ------------------------------------------------------------------------
\* header values as the server sends them, and what int() makes of them;
\* int() raises ValueError on the others
Numerals ==
    {<<"0", 0>>, <<"5", 5>>, <<"45", 45>>, <<"130", 130>>, <<"7200", 7200>>,
     <<"-5", 0 - 5>>}

IsInt(v) == \E n \in Numerals : n[1] = v

IntOf(v) == (CHOOSE n \in Numerals : n[1] = v)[2]

Max(a, b) == IF a >= b THEN a ELSE b

\* int(time.time()): the clock of the model counts hours
current_time == now * SecondsPerHour

\* a response is its status, Retry-After, the values of X-RateLimit-Reset,
\* RateLimit-Reset and X-Rate-Limit-Reset, the values of
\* X-RateLimit-Remaining, RateLimit-Remaining and X-Rate-Limit-Remaining,
\* its Content-Type and the text of its body

\* Content-Type starts with 'text/html'
IsHtml(content_type) == content_type = "text/html; charset=utf-8"

\* str.lower() on the body texts used
LowerText(t) ==
    CASE t = "Too Many Requests" -> "too many requests"
      [] t = "Job fairs" -> "job fairs"
      [] OTHER -> t

\* lines 223-229: the phrases, and whether one of them is in a text (of
\* the texts used, one is a phrase and the other holds none)
RateLimitPhrases ==
    {"rate limit", "too many requests", "access denied", "blocked", "captcha"}

HasPhrase(t) == t \in RateLimitPhrases

\* lines 219-221: the loop over the remaining-quota headers; int() of a
\* header that is present is not guarded
RECURSIVE RemainingSaysZero(_)
RemainingSaysZero(hs) ==
    IF hs = <<>>
    THEN "False"
    ELSE IF Head(hs) = Absent
    THEN RemainingSaysZero(Tail(hs))
    ELSE IF ~IsInt(Head(hs))
    THEN "ValueError"
    ELSE IF IntOf(Head(hs)) = 0
    THEN "True"
    ELSE RemainingSaysZero(Tail(hs))

\* is_rate_limited (anti_scrape.py 197-237): the status, then the
\* remaining-quota headers, then the text of an HTML body
is_rate_limited(r) ==
    IF r.status \in {429, 403}
    THEN "True"
    ELSE IF RemainingSaysZero(r.remaining) # "False"
    THEN RemainingSaysZero(r.remaining)
    ELSE IF IsHtml(r.content_type) /\ HasPhrase(LowerText(r.text))
    THEN "True"
    ELSE "False"

\* lines 263-271: the loop over the reset headers; a header that does not
\* parse is passed over; line 274: the default
RECURSIVE ResetWait(_)
ResetWait(hs) ==
    IF hs = <<>>
    THEN DefaultRetryAfter
    ELSE IF Head(hs) # Absent /\ IsInt(Head(hs))
    THEN Max(0, IntOf(Head(hs)) - current_time)
    ELSE ResetWait(Tail(hs))

\* a Retry-After that does not parse ends the search with the default
handle_rate_limit_NoFallThrough(r) ==
    IF r.retry_after # Absent
    THEN IF IsInt(r.retry_after)
         THEN IntOf(r.retry_after)
         ELSE DefaultRetryAfter
    ELSE ResetWait(r.reset)

\* handle_rate_limit (anti_scrape.py 239-275): Retry-After as it parses,
\* else the first reset header that parses less the current time and not
\* below zero, else the default
handle_rate_limit(r) ==
    IF r.retry_after # Absent /\ IsInt(r.retry_after)
    THEN IntOf(r.retry_after)
    ELSE ResetWait(r.reset)

\* a response with at most one header of each kind
Answer(status, retry_after, reset, remaining, blocked) ==
    [status |-> status, retry_after |-> retry_after,
     reset |-> <<reset, Absent, Absent>>,
     remaining |-> <<remaining, Absent, Absent>>,
     content_type |-> IF blocked
                      THEN "text/html; charset=utf-8"
                      ELSE "application/json",
     text |-> IF blocked THEN "Too Many Requests" ELSE "Job fairs"]

\* what the server can answer: a status, and at most one of the headers
\* the rate-limit functions read or an HTML body with a blocking phrase;
\* the wait headers come with 429, the quota header and the phrase with 200
Responses ==
    {Answer(x.status, x.retry_after, x.reset, x.remaining, x.blocked) :
        x \in {r \in [status : {200, 403, 429, 500},
                      retry_after : {Absent, "45", "-5", "soon"},
                      reset : {Absent, "130"},
                      remaining : {Absent, "0", "soon"},
                      blocked : BOOLEAN] :
                 /\ Cardinality({h \in {"retry_after", "reset", "remaining"} :
                                   r[h] # Absent})
                       + (IF r.blocked THEN 1 ELSE 0) <= 1
                 /\ (r.retry_after # Absent \/ r.reset # Absent)
                       => r.status = 429
                 /\ (r.remaining # Absent \/ r.blocked) => r.status = 200}}

Urls == {"/fairs"}

Methods == {"get_page", "get_dynamic_page", "get_api_data"}

\* the strategy each helper is meant for
StrategyOf(m) ==
    CASE m = "get_page" -> "STATIC"
      [] m = "get_dynamic_page" -> "DYNAMIC"
      [] m = "get_api_data" -> "API"

\* the counters of a call stop at a cap
CounterCap == 2 * MaxDepth + MaxAttempts

Bump(n) == IF n < CounterCap THEN n + 1 ELSE n

\* the exceptions the retry policy of get_page retries on
TransportErrors == {"ConnectionError", "HTTPError"}

\* a retry policy that never gives up
RetryStops_Never(attempt) == FALSE

\* stop_after_attempt(3) of the decorator of get_page (line 163)
RetryStops(attempt) == attempt >= MaxAttempts

\* the helper checks the strategy of the scraper before anything else:
\* get_dynamic_page (223-224) and get_api_data (272-273) do, get_page
\* does not
ChecksStrategy(m) == m \in {"get_dynamic_page", "get_api_data"}

\* the helper is wrapped in the retry decorator: get_page only (162-167)
Decorated(m) == m = "get_page"

\* the call ends: f is the record of the call, x what it returns or raises
Ended(f, x) == [f EXCEPT !.pc = "done", !.result = x]

\* the helper m is called on scraper s with url u
Called(s, m, u) ==
    LET f == [NoFetch EXCEPT !.who = s, !.method = m, !.url = u]
    IN  IF ChecksStrategy(m) /\ scraper_type[s] # StrategyOf(m)
        THEN Ended(f, "ValueError")
        ELSE IF m = "get_dynamic_page"
        THEN [f EXCEPT !.pc = "browser"]
        ELSE [f EXCEPT !.pc = "request", !.stack = <<1>>]

\* an exception that the retry policy does not retry leaves every
\* enclosing call at once
Raised(f, x) ==
    Ended([f EXCEPT !.other_failures = Bump(@)], x)

\* requests.get or raise_for_status raised x, a transport failure: the
\* decorator calls the function again until the attempts of this
\* invocation are used up, then raises RetryError, which the decorators
\* of the enclosing invocations do not retry; without the decorator x
\* leaves the call
TransportFailure(f, x) ==
    LET top == Len(f.stack)
        g == [f EXCEPT !.failures = Bump(@)]
    IN  IF Decorated(f.method)
        THEN IF RetryStops(f.stack[top])
             THEN Ended(g, "RetryError")
             ELSE [g EXCEPT !.stack[top] = Bump(@)]
        ELSE Ended(g, x)

\* lines 199-204 and 303-308: time.sleep(wait_time), which raises
\* ValueError on a negative length, then the helper calls itself with the
\* arguments it was given; the interpreter ends the recursion with
\* RecursionError at its depth limit
RateLimited(f, r) ==
    LET wait_time == handle_rate_limit(r)
    IN  IF wait_time < 0
        THEN Raised(f, "ValueError")
        ELSE IF Len(f.stack) >= MaxDepth
        THEN Raised([f EXCEPT !.slept = wait_time], "RecursionError")
        ELSE [f EXCEPT !.slept = wait_time, !.stack = Append(@, 1)]

\* requests.get returned r
Received(f, r) ==
    LET g == [f EXCEPT !.response = r]
        limited == is_rate_limited(r)
    IN  IF limited = "ValueError"
        THEN Raised(g, "ValueError")
        ELSE IF limited = "True"
        THEN RateLimited(g, r)
        ELSE IF r.status >= 400
        THEN TransportFailure(g, "HTTPError")
        ELSE Ended(g, "response")

\* requests.get is called with the url the helper was given; the
\* invocation has no response yet
Requested(f) ==
    [f EXCEPT !.requests = Bump(@), !.sent = f.url, !.response = NoResponse]

\* a fetch helper is called from outside a run
FetchCall(s, m) ==
    /\ pc = "IDLE"
    /\ fetch.pc = "idle"
    /\ \E u \in Urls : fetch' = Called(s, m, u)
    /\ UNCHANGED <<validation, config, browser, ever_fetched, data_dir, now,
                   runvars>>

\* get_page, get_api_data: the request and what follows from its answer
FetchRequest ==
    /\ fetch.pc = "request"
    /\ \/ fetch' = TransportFailure(Requested(fetch), "ConnectionError")
       \/ \E r \in Responses : fetch' = Received(Requested(fetch), r)
    /\ UNCHANGED <<validation, config, browser, ever_fetched, data_dir, now,
                   runvars>>

\* what find_element and is_displayed find on the loaded page for the
\* CAPTCHA selector: no element (NoSuchElementException), an element that
\* is not displayed, a displayed element
Captchas == {"absent", "hidden", "displayed"}

\* handle_captcha (anti_scrape.py 164-195): False from inside the if for a
\* displayed element, True from the except clause, and the final return
\* False for an element that is not displayed
handle_captcha(c) ==
    CASE c = "displayed" -> FALSE
      [] c = "absent" -> TRUE
      [] OTHER -> FALSE

\* get_dynamic_page, lines 248-254: the warning is logged when
\* handle_captcha returned False, and page_source is returned either way
Checked(f, c) ==
    Ended([f EXCEPT !.captcha = c, !.warned = ~handle_captcha(c)],
          "page_source")

\* get_dynamic_page after the strategy check (226-258): the session is
\* created when the instance holds none, then the page is loaded and
\* checked for a CAPTCHA; what fails is logged and raised again
FetchBrowse ==
    /\ fetch.pc = "browser"
    /\ \E setup_ok \in BOOLEAN, load_ok \in BOOLEAN, c \in Captchas :
          LET s == fetch.who
              needs == selenium_driver[s] = 0
              created == setup_ok /\ CanCreate
              f == [fetch EXCEPT !.browser = TRUE]
          IN  /\ IF needs /\ created
                 THEN NewSession(s) /\ UNCHANGED ever_closed
                 ELSE UNCHANGED browser
              /\ fetch' = IF needs /\ ~created
                          THEN Raised(f, "WebDriverException")
                          ELSE IF load_ok
                          THEN Checked(f, c)
                          ELSE Raised(f, "WebDriverException")
    /\ ever_fetched' = [ever_fetched EXCEPT ![fetch.who] = TRUE]
    /\ UNCHANGED <<validation, config, data_dir, now, runvars>>

\* the caller has the result of the call
FetchReturn ==
    /\ pc = "IDLE"
    /\ fetch.pc = "done"
    /\ fetch' = NoFetch
    /\ UNCHANGED <<validation, config, browser, ever_fetched, data_dir, now,
                   runvars>>

\* the fetch helpers on their own: every strategy for the first scraper
InitFetch ==
    /\ name = [s \in Scrapers |-> SourceNames[s]]
    /\ scraper_type \in {t \in [Scrapers -> ScraperTypes] : t[2] = "STATIC"}
    /\ update_frequency = [s \in Scrapers |-> "CUSTOM"]
    /\ selenium_driver = [s \in Scrapers |-> ConstructDriver(scraper_type, s)]
    /\ sessions = [i \in 1..Cardinality({s \in Scrapers : scraper_type[s] = "DYNAMIC"})
                     |-> "live"]
    /\ ever_closed = [s \in Scrapers |-> FALSE]
    /\ ever_fetched = [s \in Scrapers |-> FALSE]
    /\ data_dir = <<>>
    /\ now = 0
    /\ self = 0
    /\ pc = "IDLE"
    /\ steps = <<>>
    /\ events = <<>>
    /\ validated_events = <<>>
    /\ deduplicated_events = <<>>
    /\ duplicate_count = 0
    /\ result = None
    /\ outcome = "none"
    /\ held = 0
    /\ wrote = FALSE
    /\ prev_run = NoRun
    /\ fetch = NoFetch
    /\ validation = NoValidation

NextFetch ==
    \/ \E s \in Scrapers, m \in Methods : FetchCall(s, m)
    \/ FetchRequest
    \/ FetchBrowse
    \/ FetchReturn
    \/ \E s \in Scrapers : fetch.pc = "idle" /\ CloseSeleniumDriver(s)

SpecFetch == InitFetch /\ [][NextFetch]_vars

\* ------------------------------------------------------------------------
\* run() with the fetch that scrape() makes (base.py 504-557, 162-314)
\* ------------------------------------------------------------------------
\* the helper that scrape() of a scraper of type t calls
MethodOf(t) ==
    CASE t = "STATIC" -> "get_page"
      [] t = "DYNAMIC" -> "get_dynamic_page"
      [] t = "API" -> "get_api_data"

\* lines 518-525: session setup when DYNAMIC and no session is held, then
\* scrape() calls the helper of its strategy
RunScrapeCall ==
    /\ pc = "FETCHING"
    /\ \E setup_ok \in BOOLEAN, u \in Urls :
          LET needs == scraper_type[self] = "DYNAMIC" /\ selenium_driver[self] = 0
              created == needs /\ setup_ok /\ CanCreate
          IN  /\ IF created
                 THEN NewSession(self) /\ UNCHANGED ever_closed
                 ELSE UNCHANGED browser
              /\ IF needs => created
                 THEN /\ steps' = Append(steps, "scrape")
                      /\ held' = selenium_driver'[self]
                      /\ fetch' = Called(self, MethodOf(scraper_type[self]), u)
                      /\ pc' = "SCRAPING"
                 ELSE /\ pc' = "ERROR"
                      /\ held' = 0
                      /\ UNCHANGED <<steps, fetch>>
    /\ ever_fetched' = [ever_fetched EXCEPT
                          ![self] = @ \/ scraper_type[self] = "DYNAMIC"]
    /\ UNCHANGED <<validation, config, data_dir, now, self, events,
                   validated_events, deduplicated_events, duplicate_count, result, outcome,
                   wrote, prev_run>>

\* scrape() has what the helper returned and parses it, or the exception
\* of the helper or of the parsing reaches the except clause of run()
RunScrapeResult ==
    /\ pc = "SCRAPING"
    /\ fetch.pc = "done"
    /\ \E parse_ok \in BOOLEAN, batch \in Upstream(self) :
          IF fetch.result \in {"response", "page_source"} /\ parse_ok
          THEN pc' = "VALIDATING" /\ events' = batch
          ELSE pc' = "ERROR" /\ UNCHANGED events
    /\ fetch' = [NoFetch EXCEPT !.result = fetch.result]
    /\ UNCHANGED <<validation, config, browser, ever_fetched, data_dir, now, self,
                   steps, validated_events, deduplicated_events, duplicate_count, result,
                   outcome, held, wrote, prev_run>>

\* one run of either scraper, on an empty data directory or on one that
\* holds a unit of the first source written at hour 0
InitRun ==
    /\ name = [s \in Scrapers |-> SourceNames[s]]
    /\ scraper_type \in {t \in [Scrapers -> ScraperTypes] : t[2] = "STATIC"}
    /\ update_frequency \in {u \in [Scrapers -> {"DAILY", "CUSTOM"}] : u[2] = "CUSTOM"}
    /\ selenium_driver = [s \in Scrapers |-> ConstructDriver(scraper_type, s)]
    /\ sessions = [i \in 1..Cardinality({s \in Scrapers : scraper_type[s] = "DYNAMIC"})
                     |-> "live"]
    /\ ever_closed = [s \in Scrapers |-> FALSE]
    /\ ever_fetched = [s \in Scrapers |-> FALSE]
    /\ data_dir \in {<<>>,
                     [f \in {FileName(SourceNames[1], 0)} |->
                         [mtime |-> 0,
                          content |-> <<[event_name |-> "Fair A",
                                         venue_name |-> "hall",
                                         source_id |-> source_id[1],
                                         source_name |-> SourceNames[1],
                                         source_type |-> source_type[1],
                                         source_priority |-> source_priority[1],
                                         scraped_at |-> 0]>>,
                          ok |-> TRUE]]}
    /\ now = 1
    /\ self = 0
    /\ pc = "IDLE"
    /\ steps = <<>>
    /\ events = <<>>
    /\ validated_events = <<>>
    /\ deduplicated_events = <<>>
    /\ duplicate_count = 0
    /\ result = None
    /\ outcome = "none"
    /\ held = 0
    /\ wrote = FALSE
    /\ prev_run = NoRun
    /\ fetch = NoFetch
    /\ validation = NoValidation

NextRun ==
    \/ \E s \in Scrapers : RunBegin(s)
    \/ RunScheduleCheck
    \/ RunScrapeCall
    \/ FetchRequest
    \/ FetchBrowse
    \/ RunScrapeResult
    \/ RunValidate
    \/ RunDedupe
    \/ RunPersist
    \/ RunFinally

\* run() is one sequential method: it takes its next step whenever it has
\* one
SpecRun == InitRun /\ [][NextRun]_vars /\ WF_vars(NextRun)

\* ------------------------------------------------------------------------
\* validate_event on any raw mapping (base.py 406-446) and the model class
\* JobFairEvent (job_fair.py 10-121)
\* ------------------------------------------------------------------------
\* the keys of a raw mapping that the model has; a key the mapping lacks
\* has the value Absent
Fields ==
    {"event_name", "start_datetime", "venue_name", "organizer_name",
     "event_type", "source_id", "source_name", "language", "status"}

\* job_fair.py 14-21: the fields without a default
RequiredFields ==
    {"event_name", "start_datetime", "venue_name", "organizer_name",
     "event_type", "source_id", "source_name"}

\* the fields of validate_required_text (line 75)
RequiredText == {"event_name", "venue_name", "organizer_name"}

ValidLanguages == {"ZH-HK", "EN", "BOTH"}

ValidStatuses == {"UPCOMING", "ONGOING", "PAST", "CANCELLED"}

\* a value that is not a str (an int, True): it has no upper() or strip()
NonStrings == {"<int 5>"}

\* not v
Falsy(v) == v = ""

\* str.upper() on the values used
Upper(v) ==
    CASE v = "en" -> "EN"
      [] v = "past" -> "PAST"
      [] v = "done" -> "DONE"
      [] OTHER -> v

\* self.name as text, and the default event name made of it (line 426)
NameText(n) ==
    CASE n = SourceNames[1] -> "HK"
      [] n = SourceNames[2] -> "HK J"

UnknownEvent(n) ==
    CASE n = SourceNames[1] -> "Unknown Event (HK)"
      [] n = SourceNames[2] -> "Unknown Event (HK J)"

\* datetime.now(Hong Kong).isoformat() at hour t of the clock (line 429)
NowIso(t) ==
    CASE t = 0 -> "2024-03-15T00:00:00+08:00"
      [] t = 1 -> "2024-03-15T01:00:00+08:00"
      [] OTHER -> "2024-03-16T00:00:00+08:00"

\* the timestamp texts used: whether the text has 'T' and '+', what
\* datetime.fromisoformat(...).isoformat() gives after a naive value was
\* localized to Hong Kong time ("" when fromisoformat raises ValueError),
\* whether the text has 10 characters and a '-', and the text followed by
\* "T00:00:00+08:00"
DateTexts ==
    {[text |-> "2024-03-15", t_plus |-> FALSE,
      iso |-> "2024-03-15T00:00:00+08:00", date_like |-> TRUE,
      suffixed |-> "2024-03-15T00:00:00+08:00"],
     [text |-> "2024-03-15T10:00:00", t_plus |-> FALSE,
      iso |-> "2024-03-15T10:00:00+08:00", date_like |-> FALSE,
      suffixed |-> "2024-03-15T10:00:00T00:00:00+08:00"],
     [text |-> "2024-03-15T10:00:00+08:00", t_plus |-> TRUE,
      iso |-> "2024-03-15T10:00:00+08:00", date_like |-> FALSE,
      suffixed |-> "2024-03-15T10:00:00+08:00T00:00:00+08:00"],
     [text |-> "15/03/2024", t_plus |-> FALSE,
      iso |-> "", date_like |-> FALSE,
      suffixed |-> "15/03/2024T00:00:00+08:00"]}

\* the texts that are a timestamp with an offset
AwareTexts ==
    {"2024-03-15T00:00:00+08:00", "2024-03-15T10:00:00+08:00",
     "2024-03-15T01:00:00+08:00", "2024-03-16T00:00:00+08:00"}

\* validate_datetime (job_fair.py 50-73): an empty value and a value with
\* 'T' and '+' are returned as they are; a value that fromisoformat
\* parses is placed in Hong Kong time when it has no offset; of the
\* others a date-like value gets the suffix and the rest is returned as
\* it is
validate_datetime(v) ==
    IF Falsy(v) \/ ~(\E d \in DateTexts : d.text = v)
    THEN v
    ELSE LET d == CHOOSE x \in DateTexts : x.text = v
         IN  IF d.t_plus
             THEN v
             ELSE IF d.iso # ""
             THEN d.iso
             ELSE IF d.date_like
             THEN d.suffixed
             ELSE v

\* validate_required_text (75-80): what it raises, "" when it returns
RequiredTextError(v) ==
    IF v \in NonStrings
    THEN "AttributeError"
    ELSE IF Falsy(v) \/ Falsy(Strip(v))
    THEN "ValueError"
    ELSE ""

\* validate_language and validate_status (102-116): v.upper() of a value
\* that is true and not a str raises AttributeError
ChoiceError(v) == IF v \in NonStrings THEN "AttributeError" ELSE ""

validate_language(v) ==
    IF ~Falsy(v) /\ Upper(v) \in ValidLanguages THEN Upper(v) ELSE "ZH-HK"

validate_status(v) ==
    IF ~Falsy(v) /\ Upper(v) \in ValidStatuses THEN Upper(v) ELSE "UPCOMING"

\* JobFairEvent(**m) raises: a required field is missing, or a validator
\* of a field that is present raises
ConstructionFails(m) ==
    \/ \E f \in RequiredFields : m[f] = Absent
    \/ \E f \in RequiredText : RequiredTextError(m[f]) # ""
    \/ m.language # Absent /\ ChoiceError(m.language) # ""
    \/ m.status # Absent /\ ChoiceError(m.status) # ""

\* JobFairEvent(**m).dict(exclude_none=True) when the construction succeeds
JobFairEvent(m) ==
    [event_name |-> Strip(m.event_name),
     start_datetime |-> validate_datetime(m.start_datetime),
     venue_name |-> Strip(m.venue_name),
     organizer_name |-> Strip(m.organizer_name),
     event_type |-> m.event_type,
     source_id |-> m.source_id,
     source_name |-> m.source_name,
     language |-> IF m.language = Absent
                  THEN "ZH-HK"
                  ELSE validate_language(m.language),
     status |-> IF m.status = Absent
                THEN "UPCOMING"
                ELSE validate_status(m.status)]

\* a repair that changes nothing
Repair_Nothing(s, m) == m

\* lines 425-435: the four defaults, written into the mapping itself
Repair(s, m) ==
    LET Missing(f) == m[f] = Absent \/ Falsy(m[f])
    IN  [m EXCEPT
           !.event_name = IF Missing("event_name")
                          THEN UnknownEvent(name[s]) ELSE @,
           !.start_datetime = IF Missing("start_datetime")
                              THEN NowIso(now) ELSE @,
           !.venue_name = IF Missing("venue_name")
                          THEN "To be announced" ELSE @,
           !.organizer_name = IF Missing("organizer_name")
                              THEN NameText(name[s]) ELSE @]

\* a second failure that is raised to the caller
SecondFailure_Raises(m) ==
    [kind |-> "degraded", value |-> m, mapping |-> m, constructions |-> 2,
     raises |-> TRUE]

\* lines 444-446: the second failure is logged and the mapping returned
SecondFailure(m) ==
    [kind |-> "degraded", value |-> m, mapping |-> m, constructions |-> 2,
     raises |-> FALSE]

\* validate_event of scraper s on the mapping m: what it returns, what the
\* mapping of the caller holds afterwards, how often the model class was
\* constructed
validate_event_of(s, m) ==
    IF ~ConstructionFails(m)
    THEN [kind |-> "record", value |-> JobFairEvent(m), mapping |-> m,
          constructions |-> 1, raises |-> FALSE]
    ELSE LET fixed == Repair(s, m)
         IN  IF ~ConstructionFails(fixed)
             THEN [kind |-> "record", value |-> JobFairEvent(fixed),
                   mapping |-> fixed, constructions |-> 2, raises |-> FALSE]
             ELSE SecondFailure(fixed)

\* the raw mappings a scraper can hand to the validation
RawMappings ==
    [event_name : {Absent, "", "  ", " Fair A"},
     start_datetime : {Absent, "", "2024-03-15", "2024-03-15T10:00:00",
                       "15/03/2024"},
     venue_name : {Absent, " hall"},
     organizer_name : {Absent, "Org"},
     event_type : {Absent, "job_fair"},
     source_id : {"hk"},
     source_name : {"HK"},
     language : {Absent, "en", "FR", "<int 5>"},
     status : {Absent, "past", "done"}]

\* a second item of the list: one that validates, one that does not
SecondItems ==
    {[event_name |-> "Fair B", start_datetime |-> "2024-03-15",
      venue_name |-> "HALL", organizer_name |-> "Org", event_type |-> e,
      source_id |-> "hk", source_name |-> "HK", language |-> "en",
      status |-> "past"] : e \in {Absent, "job_fair"}}

\* lines 527-536 of run(), one item per step: an exception of
\* validate_event is logged and the item left out
ValidateItem ==
    /\ validation.i < Len(validation.raw)
    /\ LET k == validation.i + 1
           r == validate_event_of(validation.who, validation.raw[k])
       IN  validation' =
              [validation EXCEPT
                 !.i = k,
                 !.raw[k] = r.mapping,
                 !.raised = @ \/ r.raises,
                 !.kept = IF r.raises THEN @ ELSE Append(@, r.value),
                 !.kinds = IF r.raises THEN @ ELSE Append(@, r.kind),
                 !.constructions = Append(@, r.constructions)]
    /\ UNCHANGED <<fetch, config, browser, ever_fetched, data_dir, now,
                   runvars>>

\* the validation loop on its own: a list of one or two raw mappings
InitValidate ==
    /\ name = [s \in Scrapers |-> SourceNames[s]]
    /\ scraper_type = [s \in Scrapers |-> "STATIC"]
    /\ update_frequency = [s \in Scrapers |-> "CUSTOM"]
    /\ selenium_driver = [s \in Scrapers |-> 0]
    /\ sessions = <<>>
    /\ ever_closed = [s \in Scrapers |-> FALSE]
    /\ ever_fetched = [s \in Scrapers |-> FALSE]
    /\ data_dir = <<>>
    /\ now \in {0, 1}
    /\ self = 0
    /\ pc = "IDLE"
    /\ steps = <<>>
    /\ events = <<>>
    /\ validated_events = <<>>
    /\ deduplicated_events = <<>>
    /\ duplicate_count = 0
    /\ result = None
    /\ outcome = "none"
    /\ held = 0
    /\ wrote = FALSE
    /\ prev_run = NoRun
    /\ fetch = NoFetch
    /\ \E s \in Scrapers, m \in RawMappings :
          \E batch \in {<<m>>} \cup {<<m, q>> : q \in SecondItems} :
             validation = [NoValidation EXCEPT
                             !.who = s, !.passed = batch, !.raw = batch]

NextValidate == ValidateItem

SpecValidate == InitValidate /\ [][NextValidate]_vars

\* ------------------------------------------------------------------------
\* The rate-limit functions on their own (anti_scrape.py 197-275)
\* ------------------------------------------------------------------------
\* responses that differ in what handle_rate_limit reads
WaitInputs ==
    [status : {429},
     retry_after : {Absent, "45", "-5", "soon"},
     reset : [1..3 -> {Absent, "130", "7200", "soon"}],
     remaining : {<<Absent, Absent, Absent>>},
     content_type : {"application/json"},
     text : {"Job fairs"}]

\* responses that differ in what is_rate_limited reads
ClassifyInputs ==
    [status : {200, 403, 429, 500},
     retry_after : {Absent},
     reset : {<<Absent, Absent, Absent>>},
     remaining : [1..3 -> {Absent, "0", "5", "soon"}],
     content_type : {"text/html; charset=utf-8", "application/json"},
     text : {"Job fairs", "Too Many Requests"}]

\* is_rate_limited(response) is called: the record holds what it returned
\* or raised
IsRateLimitedCall ==
    /\ fetch.pc = "input"
    /\ fetch' = [fetch EXCEPT !.pc = "done", !.method = "is_rate_limited",
                              !.result = is_rate_limited(fetch.response)]
    /\ UNCHANGED <<validation, config, browser, ever_fetched, data_dir, now,
                   runvars>>

\* handle_rate_limit(response) is called: slept holds the wait it returned
HandleRateLimitCall ==
    /\ fetch.pc = "input"
    /\ fetch' = [fetch EXCEPT !.pc = "done", !.method = "handle_rate_limit",
                              !.result = "int",
                              !.slept = handle_rate_limit(fetch.response)]
    /\ UNCHANGED <<validation, config, browser, ever_fetched, data_dir, now,
                   runvars>>

InitRateLimit ==
    /\ name = [s \in Scrapers |-> SourceNames[s]]
    /\ scraper_type = [s \in Scrapers |-> "STATIC"]
    /\ update_frequency = [s \in Scrapers |-> "CUSTOM"]
    /\ selenium_driver = [s \in Scrapers |-> 0]
    /\ sessions = <<>>
    /\ ever_closed = [s \in Scrapers |-> FALSE]
    /\ ever_fetched = [s \in Scrapers |-> FALSE]
    /\ data_dir = <<>>
    /\ now \in {0, 1}
    /\ self = 0
    /\ pc = "IDLE"
    /\ steps = <<>>
    /\ events = <<>>
    /\ validated_events = <<>>
    /\ deduplicated_events = <<>>
    /\ duplicate_count = 0
    /\ result = None
    /\ outcome = "none"
    /\ held = 0
    /\ wrote = FALSE
    /\ prev_run = NoRun
    /\ \E r \in WaitInputs \cup ClassifyInputs :
          fetch = [NoFetch EXCEPT !.pc = "input", !.response = r]
    /\ validation = NoValidation

NextRateLimit ==
    \/ IsRateLimitedCall
    \/ HandleRateLimitCall

SpecRateLimit == InitRateLimit /\ [][NextRateLimit]_vars

\* ------------------------------------------------------------------------
\* Properties
\* ------------------------------------------------------------------------
\* the output units that source s wrote: the files named <slug>_<date>.json
UnitsOf(s) ==
    {f \in DOMAIN data_dir :
        Len(f) >= 3 /\ SubSeq(f, 1, Len(f) - 3) = Slug(name[s])}

\* the run entered FETCHING
EnteredFetching == outcome \in {"persisted", "nothing_new", "failed"}

\* the order of the steps of run()
RunOrder ==
    <<"should_update", "scrape", "validate_event", "deduplicate_events",
      "save_to_json">>

\* C1: run() never raises to its caller: whatever step fails, the result is
\* None, and the only results are an output identifier or None.
C1_RunNeverRaises ==
    pc = "DONE" =>
        /\ outcome # "raised"
        /\ result \in {None, FileName(name[self], now)}

\* C2: when a run of a DYNAMIC scraper that entered FETCHING reports its
\* result, the instance holds no session and quit() has been called on the
\* session it held during the fetch.
C2_SessionTornDown ==
    (pc = "DONE" /\ scraper_type[self] = "DYNAMIC" /\ EnteredFetching) =>
        /\ selenium_driver[self] = 0
        /\ held # 0 => sessions[held] = "closed"

\* a run of a DYNAMIC scraper failed after scrape() was entered with a
\* session, and the session is closed
C2_Witness ==
    /\ pc = "DONE"
    /\ scraper_type[self] = "DYNAMIC"
    /\ outcome = "failed"
    /\ held # 0
    /\ sessions[held] = "closed"
    /\ selenium_driver[self] = 0

\* C3: after run() returns with any outcome (skipped, persisted, nothing
\* new, failed) the instance holds no browser session.
C3_NoSessionAfterRun ==
    (pc = "DONE" /\ outcome \in {"skipped", "persisted", "nothing_new", "failed"})
        => selenium_driver[self] = 0

\* C4: every session that was created and that no instance references has
\* been closed, so at most one live session exists per instance.
C4_AtMostOneLive ==
    \A i \in 1..Len(sessions) :
        sessions[i] = "live" => \E s \in Scrapers : selenium_driver[s] = i

\* C5: a DYNAMIC scraper holds no session from construction until its first
\* rendered fetch or until its run() enters FETCHING.
C5_LazyCreation ==
    \A s \in Scrapers :
        (scraper_type[s] = "DYNAMIC" /\ ~ever_fetched[s])
            => selenium_driver[s] = 0

\* C5 as amended: the session of a DYNAMIC scraper is created at
\* construction and held until the first close_selenium_driver (explicit or
\* at the end of a run); a scraper of another type never holds a session.
C5_EagerCreation ==
    \A s \in Scrapers :
        /\ (scraper_type[s] = "DYNAMIC" /\ ~ever_closed[s])
              => (selenium_driver[s] # 0 /\ sessions[selenium_driver[s]] = "live")
        /\ scraper_type[s] # "DYNAMIC" => selenium_driver[s] = 0

\* the run() of a DYNAMIC scraper that has never fetched nor closed is at
\* its schedule check, holding the session of the constructor
C5_Witness ==
    /\ pc = "SCHEDULE_CHECK"
    /\ scraper_type[self] = "DYNAMIC"
    /\ ~ever_fetched[self]
    /\ ~ever_closed[self]
    /\ selenium_driver[self] # 0

\* C6: run() makes its steps in the order schedule check, scrape, validate,
\* deduplicate, persist; it returns an output identifier exactly when this
\* run wrote an output unit; a skipped, empty or failed run returns None and
\* writes nothing; a skipped run makes no step after the schedule check.
C6_OutputIffWritten ==
    (pc = "DONE" /\ outcome # "raised") =>
        /\ steps = SubSeq(RunOrder, 1, Len(steps))
        /\ (result # None) <=> wrote
        /\ outcome \in {"skipped", "nothing_new", "failed"}
              => (result = None /\ ~wrote)
        /\ outcome = "skipped" => steps = <<"should_update">>
        /\ outcome = "persisted" => steps = RunOrder

\* C7: should_update returns true when the source has no prior unit;
\* otherwise, with E the time since the latest modification of a unit of
\* the source, true exactly when E exceeds 1 h (HOURLY), 24 h (DAILY), 7 d
\* (WEEKLY), 30 d (MONTHLY), and true for CUSTOM and unknown frequencies.
C7_ShouldRun ==
    pc = "CALLED" =>
        result =
            IF UnitsOf(self) = {}
            THEN TRUE
            ELSE LET E == now - LatestTime(UnitsOf(self))
                 IN  CASE update_frequency[self] = "HOURLY" -> E > 1
                       [] update_frequency[self] = "DAILY" -> E > 24
                       [] update_frequency[self] = "WEEKLY" -> E > 7 * 24
                       [] update_frequency[self] = "MONTHLY" -> E > 30 * 24
                       [] OTHER -> TRUE

\* C8: for a DAILY source, should_update is false right after a run of the
\* source completed, and true once the latest unit of the source is more
\* than 24 hours old.
C8_DailyGate ==
    \A s \in Scrapers :
        update_frequency[s] = "DAILY" =>
            /\ (pc = "DONE" /\ self = s
                   /\ outcome \in {"persisted", "nothing_new"})
                  => ~should_update(s)
            /\ (UnitsOf(s) # {} /\ now - LatestTime(UnitsOf(s)) > 24)
                  => should_update(s)

\* C9: a run that scrapes what the previous run of the same source
\* scraped, that run having persisted its output, keeps no item.
C9_SecondRunKeepsNothing ==
    (/\ pc \in {"PERSISTING", "NO_NEW_DATA", "PERSISTED", "DONE"}
     /\ prev_run.persisted
     /\ prev_run.who = self
     /\ prev_run.events = events)
        => (deduplicated_events = <<>> /\ ~wrote)

\* C10: of two scraped items that the equivalence check treats as the same
\* event and that match no existing record, exactly one is kept.
C10_OneSurvives ==
    pc \in {"PERSISTING", "NO_NEW_DATA"} =>
        \A i, j \in 1..Len(validated_events) :
            (/\ i < j
             /\ SameEvent(validated_events[i], validated_events[j])
             /\ ~is_duplicate_event(validated_events[i], load_existing_data(self)))
                => Cardinality({k \in 1..Len(deduplicated_events) :
                        SameEvent(deduplicated_events[k], validated_events[i])}) = 1

\* C11: a persisting step of a run leaves every readable unit that an
\* earlier run of the same source wrote as it was (same name, same
\* content), so that every event once persisted is still among what
\* load_existing_data returns afterwards.
C11_UnitsNeverOverwritten ==
    [][(pc = "PERSISTING" /\ pc' = "PERSISTED")
          => \A f \in UnitsOf(self) :
                data_dir[f].ok
                   => /\ f \in DOMAIN data_dir'
                      /\ data_dir'[f].content = data_dir[f].content
                      /\ \A i \in 1..Len(data_dir[f].content) :
                            \E j \in 1..Len(load_existing_data(self)') :
                               load_existing_data(self)'[j] = data_dir[f].content[i]]_vars

\* C12: a fetch helper called on a scraper of another strategy ends with
\* ValueError and has made no request and not touched the browser.
C12_WrongVariantFailsFast ==
    (fetch.pc = "done" /\ scraper_type[fetch.who] # StrategyOf(fetch.method))
        => /\ fetch.result = "ValueError"
           /\ fetch.requests = 0
           /\ ~fetch.browser

\* C13: one call of get_page sees at most MaxAttempts transport failures,
\* whatever mix of rate-limited answers and failures the server gives, and
\* a failure of another kind ends the call the first time it occurs.
C13_AtMostThreeFailures ==
    fetch.method = "get_page"
        => /\ fetch.failures <= MaxAttempts
           /\ fetch.other_failures <= 1
           /\ fetch.other_failures = 1 => fetch.pc = "done"

\* C14: a call of get_api_data that ends with a transport failure has made
\* MaxAttempts failed attempts first.
C14_ApiFailureRetried ==
    (/\ fetch.pc = "done"
     /\ fetch.method = "get_api_data"
     /\ fetch.result \in TransportErrors \cup {"RetryError"})
        => fetch.failures = MaxAttempts

\* C15: in get_page and get_api_data a rate-limited answer is neither
\* returned nor turned into a failure: a call that ended returned an answer
\* that is not rate-limited or failed on an answer that is not, and after a
\* rate-limited answer the call has slept what handle_rate_limit computes
\* and asks again for the url it was given.
C15_RateLimitedNeverSurfaced ==
    (fetch.method \in {"get_page", "get_api_data"}
        /\ fetch.response # NoResponse
        /\ is_rate_limited(fetch.response) = "True")
        => /\ fetch.pc = "request"
           /\ fetch.slept = handle_rate_limit(fetch.response)
           /\ fetch.sent = fetch.url

\* C16: every run that has started ends, as completed (persisted or
\* nothing new), skipped or failed, whatever the server answers, a
\* rate-limited answer to every request included; no run stays in the
\* fetch for ever.
C16_RunEnds ==
    (pc = "SCHEDULE_CHECK")
        ~> (/\ pc = "DONE"
            /\ outcome \in {"persisted", "nothing_new", "skipped", "failed",
                            "raised"})

\* a run has failed on a server that rate-limited every request
C16_Witness ==
    /\ pc = "DONE"
    /\ outcome = "failed"
    /\ fetch.result = "RecursionError"

\* C17: validate_event raises for no raw mapping, and the validation loop
\* of run() has kept one item for every item it has processed, in the
\* order of the list: the record built from the mapping, or the mapping
\* itself when the construction failed twice.
C17_OneValidatedPerItem ==
    /\ ~validation.raised
    /\ Len(validation.kept) = validation.i
    /\ \A k \in 1..validation.i :
          /\ validation.kinds[k] = "record"
                => validation.kept[k] = JobFairEvent(validation.raw[k])
          /\ validation.kinds[k] = "degraded"
                => validation.kept[k] = validation.raw[k]

\* a list of two items was validated, the first kept as a degraded record
C17_Witness ==
    /\ validation.i = 2
    /\ Len(validation.passed) = 2
    /\ validation.kinds[1] = "degraded"
    /\ validation.kinds[2] = "record"

\* C18: a mapping that failed both constructions is returned with the keys
\* and values the caller passed in.
C18_DegradedUnmodified ==
    \A k \in 1..validation.i :
       validation.kinds[k] = "degraded"
          => validation.kept[k] = validation.passed[k]

\* C19: an item passed in without event_name comes out with the event name
\* "Unknown Event (<source name>)", one without start time, venue name or
\* organizer name with the current local time, "To be announced" or the
\* source name, and the model class was constructed exactly twice for it.
C19_DefaultsForMissing ==
    \A k \in 1..validation.i :
       LET in == validation.passed[k]
           out == validation.kept[k]
           n == name[validation.who]
       IN  /\ in.event_name = Absent => out.event_name = UnknownEvent(n)
           /\ in.start_datetime = Absent => out.start_datetime = NowIso(now)
           /\ in.venue_name = Absent => out.venue_name = "To be announced"
           /\ in.organizer_name = Absent => out.organizer_name = NameText(n)
           /\ (\E f \in RequiredFields : in[f] = Absent)
                 => validation.constructions[k] = 2

\* an item without event_name, venue name or organizer name was validated
\* into a record of the model class
C19_Witness ==
    /\ validation.i >= 1
    /\ validation.passed[1].event_name = Absent
    /\ validation.passed[1].venue_name = Absent
    /\ validation.passed[1].organizer_name = Absent
    /\ validation.kinds[1] = "record"
    /\ validation.kept[1].event_name = UnknownEvent(name[validation.who])

\* C20: every item the validation outputs has its language and its status
\* in the fixed sets, and a language or status outside the set does not
\* make the validation of an item with valid required fields fail.
C20_LanguageStatusInSets ==
    \A k \in 1..validation.i :
       LET in == validation.passed[k]
           out == validation.kept[k]
       IN  /\ out.language \in ValidLanguages
           /\ out.status \in ValidStatuses
           /\ ~ConstructionFails([in EXCEPT !.language = Absent,
                                           !.status = Absent])
                 => validation.kinds[k] = "record"

\* C21: the start time of every record that the validation builds is a
\* timestamp with an offset: a naive text comes out with +08:00, and the
\* date "2024-03-15" as "2024-03-15T00:00:00+08:00".
C21_TimestampsAware ==
    \A k \in 1..validation.i :
       LET in == validation.passed[k]
           out == validation.kept[k]
       IN  validation.kinds[k] = "record"
              => /\ out.start_datetime # "" => out.start_datetime \in AwareTexts
                 /\ in.start_datetime = "2024-03-15"
                       => out.start_datetime = "2024-03-15T00:00:00+08:00"
                 /\ in.start_datetime = "2024-03-15T10:00:00"
                       => out.start_datetime = "2024-03-15T10:00:00+08:00"

\* C22: handle_rate_limit returns the integer of Retry-After when the
\* header is present and parses; otherwise the time left until the reset
\* of the first reset header that is present and parses, and 0 when that
\* time is past; otherwise 60. A header that does not parse is passed over.
C22_WaitRule ==
    fetch.method = "handle_rate_limit" =>
       LET r == fetch.response
           Parses(h) == h # Absent /\ IsInt(h)
           P == {i \in 1..3 : Parses(r.reset[i])}
           first == CHOOSE i \in P : \A j \in P : i <= j
       IN  fetch.slept =
              IF Parses(r.retry_after)
              THEN IntOf(r.retry_after)
              ELSE IF P # {}
              THEN Max(0, IntOf(r.reset[first]) - current_time)
              ELSE 60

\* Retry-After and the first reset header do not parse, the second reset
\* header does
C22_Witness ==
    /\ fetch.method = "handle_rate_limit"
    /\ fetch.response.retry_after = "soon"
    /\ fetch.response.reset = <<"soon", "7200", "130">>
    /\ now = 1
    /\ fetch.slept = 3600

\* C23: is_rate_limited returns a boolean for every response, true exactly
\* when the status is 429 or 403, or a remaining-quota header is "0", or
\* the body is HTML and its text holds a blocking phrase in any case.
C23_ClassificationRule ==
    fetch.method = "is_rate_limited" =>
       LET r == fetch.response
           limited == \/ r.status \in {429, 403}
                      \/ \E i \in 1..3 : r.remaining[i] = "0"
                      \/ /\ IsHtml(r.content_type)
                         /\ HasPhrase(LowerText(r.text))
       IN  /\ fetch.result \in {"True", "False"}
           /\ fetch.result = "True" <=> limited

\* C29: the wait that handle_rate_limit returns is never negative, whatever
\* Retry-After and the reset headers hold.
C29_WaitNotNegative ==
    fetch.method = "handle_rate_limit" => fetch.slept >= 0

\* C24: after deduplicate_events the kept list holds exactly the validated
\* items that the equivalence check matches to no existing record, in the
\* order of the input, and the kept items and the duplicates counted add
\* up to the number of new items.
C24_DedupePartition ==
    pc \in {"PERSISTING", "NO_NEW_DATA"} =>
       LET existing == load_existing_data(self)
           K == {i \in 1..Len(validated_events) :
                    \A j \in 1..Len(existing) :
                       ~SameEvent(validated_events[i], existing[j])}
           Nth(k) == CHOOSE i \in K : Cardinality({j \in K : j <= i}) = k
       IN  /\ Len(deduplicated_events) = Cardinality(K)
           /\ \A k \in 1..Len(deduplicated_events) :
                 deduplicated_events[k] = validated_events[Nth(k)]
           /\ Len(deduplicated_events) + duplicate_count = Len(validated_events)

\* of two new items the first matched an existing record and the second
\* was kept
C24_Witness ==
    /\ pc = "PERSISTING"
    /\ Len(validated_events) = 2
    /\ is_duplicate_event(validated_events[1], load_existing_data(self))
    /\ deduplicated_events = <<validated_events[2]>>
    /\ duplicate_count = 1

\* C25: save_to_json sets on every event the source id, name, type and
\* priority of the scraper that persists (whatever the event carried) and
\* the time of the call as scraped_at, writes exactly the kept events, in
\* order, as the content of the output file, and returns the path of that
\* file.
C25_PersistContract ==
    pc = "PERSISTED" =>
        /\ result = FileName(name[self], now)
        /\ result \in DOMAIN data_dir
        /\ data_dir[result].ok
        /\ Len(data_dir[result].content) = Len(deduplicated_events)
        /\ \A i \in 1..Len(deduplicated_events) :
              LET w == data_dir[result].content[i]
                  e == deduplicated_events[i]
              IN  /\ w.event_name = e.event_name
                  /\ w.venue_name = e.venue_name
                  /\ w.source_id = source_id[self]
                  /\ w.source_name = name[self]
                  /\ w.source_type = source_type[self]
                  /\ w.source_priority = source_priority[self]
                  /\ w.scraped_at = now

\* a run persisted two kept events that carried a source_id of their own
C25_Witness ==
    /\ pc = "PERSISTED"
    /\ Len(deduplicated_events) = 2
    /\ deduplicated_events[1].source_id # source_id[self]
    /\ deduplicated_events[1].event_name # deduplicated_events[2].event_name
    /\ data_dir[result].content[2].event_name = deduplicated_events[2].event_name

\* ------------------------------------------------------------------------
\* load_existing_data and should_update as functions of the data directory
\* (base.py 359-379, 448-492)
\* ------------------------------------------------------------------------
\* what open() and json.load find in a listed file: a JSON list; text that
\* is no JSON (json.JSONDecodeError); a file removed after os.listdir
\* (FileNotFoundError); bytes that are no UTF-8 (UnicodeDecodeError)
LoadKinds == {"list", "invalid_json", "vanished", "undecodable"}

\* the exceptions that the except clause of line 376 does not name
Uncaught(kind) == kind = "undecodable"

LoadMTimes == {0, 2}

\* the event each file holds, as save_to_json of scraper s wrote it
Stored(s, n) ==
    [event_name |-> n, venue_name |-> "hall", source_id |-> source_id[s],
     source_name |-> SourceNames[s], source_type |-> source_type[s],
     source_priority |-> source_priority[s], scraped_at |-> 0]

LoadContent(f) ==
    CASE f = FileName(SourceNames[1], 0) -> <<Stored(1, "Fair A")>>
      [] f = FileName(SourceNames[1], HoursPerDay) -> <<Stored(1, "Fair B")>>
      [] OTHER -> <<Stored(2, "Fair C")>>

InitLoad ==
    /\ name = [s \in Scrapers |-> SourceNames[s]]
    /\ scraper_type = [s \in Scrapers |-> "STATIC"]
    /\ update_frequency = [s \in Scrapers |-> "HOURLY"]
    /\ selenium_driver = [s \in Scrapers |-> 0]
    /\ sessions = <<>>
    /\ ever_closed = [s \in Scrapers |-> FALSE]
    /\ ever_fetched = [s \in Scrapers |-> FALSE]
    /\ \E F \in SUBSET ScheduleFiles :
          \E m \in [F -> LoadMTimes], k \in [F -> LoadKinds] :
             data_dir = [f \in F |-> [mtime |-> m[f],
                                      content |-> LoadContent(f),
                                      ok |-> k[f] = "list",
                                      kind |-> k[f]]]
    /\ now = 3
    /\ self = 0
    /\ pc = "IDLE"
    /\ steps = <<>>
    /\ events = <<>>
    /\ validated_events = <<>>
    /\ deduplicated_events = <<>>
    /\ duplicate_count = 0
    /\ result = None
    /\ outcome = "none"
    /\ held = 0
    /\ wrote = FALSE
    /\ prev_run = NoRun
    /\ fetch = NoFetch
    /\ validation = NoValidation

\* load_existing_data() is called on scraper s; events holds the list it
\* returns. An exception the except clause does not name leaves the
\* function
LoadExistingCall(s) ==
    /\ pc = "IDLE"
    /\ self' = s
    /\ IF \E f \in SourceFiles(s) : Uncaught(data_dir[f].kind)
       THEN outcome' = "raised" /\ UNCHANGED events
       ELSE outcome' = "returned" /\ events' = load_existing_data(s)
    /\ pc' = "LOADED"
    /\ UNCHANGED <<calls, config, browser, ever_fetched, data_dir, now, steps,
                   validated_events, deduplicated_events, duplicate_count, result,
                   held, wrote, prev_run>>

NextLoad ==
    \/ \E s \in Scrapers : LoadExistingCall(s)
    \/ \E s \in Scrapers : ShouldUpdateCall(s)

SpecLoad == InitLoad /\ [][NextLoad]_vars

\* the units of source s that hold a JSON list
ReadableUnitsOf(s) == {f \in UnitsOf(s) : data_dir[f].ok}

\* C26: load_existing_data never fails because of a corrupt or missing
\* file: it skips each such file and returns the concatenation of the
\* contents of all the other output units of the source.
C26_LoadSkipsBadFiles ==
    pc = "LOADED" =>
        /\ outcome = "returned"
        /\ events = ConcatFiles(ReadableUnitsOf(self))

\* C28: should_update and load_existing_data of a source depend only on the
\* output units of that source: the answer is the one the directory
\* without the units of the other source gives, also when one name is a
\* prefix of the other.
C28_OwnUnitsOnly ==
    /\ pc = "CALLED" =>
          (result <=> (UnitsOf(self) = {}
                          \/ now - LatestTime(UnitsOf(self)) > HourlyThreshold))
    /\ (pc = "LOADED" /\ outcome = "returned") =>
          \A i \in 1..Len(events) : events[i].source_id = source_id[self]

\* C27: get_dynamic_page logs the CAPTCHA warning exactly when an element
\* matching the CAPTCHA selector exists and is displayed (not when there is
\* none, and not when it is hidden), and in each of the three cases it
\* returns the page source.
C27_CaptchaWarning ==
    (fetch.pc = "done" /\ fetch.captcha # "none") =>
        /\ fetch.warned <=> (fetch.captcha = "displayed")
        /\ fetch.result = "page_source"

====
